---------------------------- MODULE Spec2Model ----------------------------
(***************************************************************************)
(* A model of the register machine evaluator and of the Goedel numbering   *)
(* codec of src/src/main.rs.                                               *)
(*                                                                         *)
(* One behaviour of the model is one call of an entry point by an outside  *)
(* caller: op names the function called, pc the position inside it, and    *)
(* the other variables are the locals of the functions on the call stack.  *)
(* BigUint values are naturals; Register (u64) and Label (usize) values    *)
(* are naturals below 2^RegisterBits and 2^LabelBits.                      *)
(***************************************************************************)
EXTENDS Naturals, Sequences, FiniteSets, TLC

VARIABLES
    op,               \* the entry point the caller invoked
    pc,               \* position in the running function
    overflow_checks,  \* build profile: TRUE traps integer overflow, FALSE wraps
    program,          \* program: &[Instruction]
    state,            \* state: &State of eval_program
    new_state,        \* let mut new_state
    list,             \* program: &[BigUint] of decode_list_to_program
    i,                \* position of the map iterator in list (1-based)
    collected,        \* instructions the collect() has received so far
    yz,               \* let (y, z) of decode_list_to_program
    jk,               \* let (j, k) of decode_list_to_program
    a,                \* argument a of decode_pair1 / decode_godel_to_list
    a2,               \* argument a of decode_pair2
    tmp,              \* let mut tmp
    x,                \* let mut x
    ret_vec,          \* let mut ret_vec
    callers,          \* call sites waiting for decode_pair1 to return
    result,           \* what the caller receives: <<"Ok", v>> or <<"Panic", ...>>
    prev              \* failure the caller observed in an earlier call, or <<>>

vars == <<op, pc, overflow_checks, program, state, new_state, list, i,
          collected, yz, jk, a, a2, tmp, x, ret_vec, callers, result, prev>>

---------------------------------------------------------------------------
(* Bounds of the model *)

\* width, in bits, given to the Register type (u64 in the source)
RegisterBits == 2
\* width, in bits, given to the Label type (usize in the source)
LabelBits == 2
\* longest program given to eval_program and to encode_program_to_list
MaxProgLen == 2
\* register values are not incremented beyond this value
MaxRegVal == 3
\* longest Goedel list given to the decoders
MaxListLen == 2
\* largest element of a list given to encode_list_to_godel
MaxElem == 3
\* largest x and y given to encode_pair1 / encode_pair2
MaxPair == 4
\* largest number given directly to decode_pair1, decode_pair2, decode_godel_to_list
MaxNum == 255
\* the factor-of-2 stripping loops are followed for at most this many rounds
MaxStrip == 24

RegisterMax == 2^RegisterBits - 1
LabelMax == 2^LabelBits - 1

---------------------------------------------------------------------------
(* Instructions, states and results *)

Add(r, l) == <<"Add", r, l>>
Sub(r, l1, l2) == <<"Sub", r, l1, l2>>
Halt == <<"Halt">>

\* Option<T>: None is <<>>, Some(v) is <<v>>
None == <<>>
Some(v) == <<v>>

Ok(v) == <<"Ok", v>>
Panic(msg, line) == <<"Panic", msg, line>>

NoValue == <<>>

\* sequences over S of length at most n
SeqUpTo(S, n) == UNION {[1..k -> S] : k \in 0..n}

---------------------------------------------------------------------------
(* eval_program *)

\* HashMap::entry(r).or_insert_with(BigUint::zero)
or_insert_zero(m, r) == IF r \in DOMAIN m THEN m ELSE m @@ (r :> 0)

\* a clone that restarts at label 0
clone_label0(s) == <<0, s[2]>>

\* state.clone()
clone(s) == s

\* a loop test that stops one instruction early
while_cond_early(prog, s) == s[1] + 1 < Len(prog)

\* the loop test new_state.0 < program.len()
while_cond(prog, s) == s[1] < Len(prog)

\* program[new_state.0]
curr_instr(prog, s) == prog[s[1] + 1]

\* the Add(r, l) arm
step_Add(s, r, l) ==
    LET m == or_insert_zero(s[2], r)
    IN  <<l, [m EXCEPT ![r] = @ + 1]>>

\* a Sub arm that reads an absent register without inserting it
step_Sub_no_insert(s, r, l1, l2) ==
    IF r \notin DOMAIN s[2] \/ s[2][r] = 0
    THEN <<l2, s[2]>>
    ELSE <<l1, [s[2] EXCEPT ![r] = @ - 1]>>

\* the Sub(r, l1, l2) arm
step_Sub(s, r, l1, l2) ==
    LET m == or_insert_zero(s[2], r)
    IN  IF m[r] = 0
        THEN <<l2, m>>
        ELSE <<l1, [or_insert_zero(m, r) EXCEPT ![r] = @ - 1]>>

EvalEnter ==
    /\ op = "eval_program" /\ pc = "eval_entry"
    /\ new_state' = clone(state)
    /\ pc' = "eval_while"
    /\ UNCHANGED <<op, overflow_checks, program, state, list, i, collected, yz,
                   jk, a, a2, tmp, x, ret_vec, callers, result, prev>>

EvalAdd ==
    /\ op = "eval_program" /\ pc = "eval_while"
    /\ while_cond(program, new_state)
    /\ LET ins == curr_instr(program, new_state)
       IN  /\ ins[1] = "Add"
           /\ or_insert_zero(new_state[2], ins[2])[ins[2]] < MaxRegVal
           /\ new_state' = step_Add(new_state, ins[2], ins[3])
    /\ UNCHANGED <<op, pc, overflow_checks, program, state, list, i, collected,
                   yz, jk, a, a2, tmp, x, ret_vec, callers, result, prev>>

EvalSub ==
    /\ op = "eval_program" /\ pc = "eval_while"
    /\ while_cond(program, new_state)
    /\ LET ins == curr_instr(program, new_state)
       IN  /\ ins[1] = "Sub"
           /\ new_state' = step_Sub(new_state, ins[2], ins[3], ins[4])
    /\ UNCHANGED <<op, pc, overflow_checks, program, state, list, i, collected,
                   yz, jk, a, a2, tmp, x, ret_vec, callers, result, prev>>

EvalHalt ==
    /\ op = "eval_program" /\ pc = "eval_while"
    /\ while_cond(program, new_state)
    /\ curr_instr(program, new_state)[1] = "Halt"
    /\ result' = Ok(new_state)
    /\ pc' = "returned"
    /\ UNCHANGED <<op, overflow_checks, program, state, new_state, list, i,
                   collected, yz, jk, a, a2, tmp, x, ret_vec, callers, prev>>

EvalExit ==
    /\ op = "eval_program" /\ pc = "eval_while"
    /\ ~ while_cond(program, new_state)
    /\ result' = Ok(new_state)
    /\ pc' = "returned"
    /\ UNCHANGED <<op, overflow_checks, program, state, new_state, list, i,
                   collected, yz, jk, a, a2, tmp, x, ret_vec, callers, prev>>

NextEval == EvalEnter \/ EvalAdd \/ EvalSub \/ EvalHalt \/ EvalExit

\* programs and states given to eval_program
EvalRegisters == {0, 1}
EvalLabels == {0, 1, 2}
EvalInstructions ==
    {Add(r, l) : r \in EvalRegisters, l \in EvalLabels}
    \cup {Sub(r, l[1], l[2]) : r \in EvalRegisters, l \in EvalLabels \X EvalLabels}
    \cup {Halt}
EvalMaps == UNION {[D -> {0, 1}] : D \in SUBSET EvalRegisters}

\* the program and the state of the test program_produces_correct_state
TestProgram == <<Sub(1, 2, 1), Halt, Sub(1, 3, 4), Sub(1, 5, 4), Halt, Add(0, 0)>>
TestState == <<0, (0 :> 0) @@ (1 :> 7)>>

EvalInputs ==
    (SeqUpTo(EvalInstructions, MaxProgLen) \X (EvalLabels \X EvalMaps))
    \cup {<<TestProgram, TestState>>}

\* the locals of every function before the call
InitLocals ==
    /\ new_state = NoValue
    /\ collected = <<>> /\ yz = NoValue /\ jk = NoValue
    /\ tmp = 0 /\ x = 0 /\ ret_vec = <<>> /\ callers = <<>>
    /\ result = NoValue /\ prev = <<>>

\* eval_program has no fixed-width arithmetic: one build profile is followed
InitEval ==
    /\ op = "eval_program" /\ pc = "eval_entry"
    /\ overflow_checks = FALSE
    /\ \E in \in EvalInputs : program = in[1] /\ state = in[2]
    /\ list = <<>> /\ i = 0 /\ a = 0 /\ a2 = 0
    /\ InitLocals

SpecEval == InitEval /\ [][NextEval]_vars

---------------------------------------------------------------------------
(* The pairing functions and the encoders *)

\* (BigUint::from(2u32)).pow(x) * (2u32 * y + 1u32)
encode_pair1(xx, yy) == 2^xx * (2 * yy + 1)

encode_pair2(xx, yy) == encode_pair1(xx, yy) - 1

\* 2 * *r on a Register: the product wraps when the build does not trap overflow
mul2(r) == (2 * r) % 2^RegisterBits

\* whether 2 * *r overflows the Register type
mul2_overflows(r) == 2 * r > RegisterMax

\* the closure of encode_program_to_list, in a build that wraps
encode_instruction(p) ==
    CASE p[1] = "Add" -> encode_pair1(mul2(p[2]), p[3])
      [] p[1] = "Sub" -> encode_pair1(mul2(p[2]) + 1, encode_pair2(p[3], p[4]))
      [] p[1] = "Halt" -> 0

encode_program_to_list(prog) == [k \in 1..Len(prog) |-> encode_instruction(prog[k])]

\* the fold without .rev()
RECURSIVE encode_list_no_rev(_)
encode_list_no_rev(l) ==
    IF l = <<>> THEN 0
    ELSE encode_pair1(l[Len(l)], encode_list_no_rev(SubSeq(l, 1, Len(l) - 1)))

\* l.iter().rev().fold(BigUint::zero(), |acc, v| encode_pair1(v, &acc))
RECURSIVE encode_list_to_godel(_)
encode_list_to_godel(l) ==
    IF l = <<>> THEN 0 ELSE encode_pair1(Head(l), encode_list_to_godel(Tail(l)))

\* (&tmp % 2u32).is_zero()
is_even(n) == n % 2 = 0

\* decode_pair2 without its + 1
pair2_arg_same(n) == n

\* the argument decode_pair2 hands to decode_pair1
pair2_arg(n) == n + 1

\* a next value that adds 1 where the code subtracts it
half_pred_plus(t) == (t + 1) \div 2

\* (tmp - 1u32) / 2u32, once the subtraction has not underflowed
half_pred(t) == (t - 1) \div 2

\* a decoder with no test for the Halt code
is_halt_code_never(p) == FALSE

\* p.is_zero() of decode_list_to_program
is_halt_code(p) == p = 0

\* a conversion that keeps the low bits
to_u64_truncating(n) == Some(n % 2^RegisterBits)

\* BigUint::to_u64 and BigUint::to_usize
to_u64(n) == IF n <= RegisterMax THEN Some(n) ELSE None
to_usize(n) == IF n <= LabelMax THEN Some(n) ELSE None

MsgU64 == "Number is too big to be converted into u64"
MsgUsize == "Number is too big to be converted into usize"
MsgSub == "Cannot subtract b from a because b is larger than a."
MsgMul == "attempt to multiply with overflow"

Finished == {"returned", "panicked"}

---------------------------------------------------------------------------
(* decode_pair1 and decode_pair2 *)

Pair2Call ==
    /\ pc = "pair2_entry"
    /\ a' = pair2_arg(a2)
    /\ callers' = <<"decode_pair2">> \o callers
    /\ pc' = "pair1_entry"
    /\ UNCHANGED <<op, overflow_checks, program, state, new_state, list, i,
                   collected, yz, jk, a2, tmp, x, ret_vec, result, prev>>

Pair1Enter ==
    /\ pc = "pair1_entry"
    /\ tmp' = a
    /\ x' = 0
    /\ pc' = "pair1_while"
    /\ UNCHANGED <<op, overflow_checks, program, state, new_state, list, i,
                   collected, yz, jk, a, a2, ret_vec, callers, result, prev>>

Pair1Strip ==
    /\ pc = "pair1_while"
    /\ is_even(tmp)
    /\ x < MaxStrip
    /\ x' = x + 1
    /\ tmp' = tmp \div 2
    /\ UNCHANGED <<op, pc, overflow_checks, program, state, new_state, list, i,
                   collected, yz, jk, a, a2, ret_vec, callers, result, prev>>

Pair1Exit ==
    /\ pc = "pair1_while"
    /\ ~ is_even(tmp)
    /\ pc' = "pair1_line75"
    /\ UNCHANGED <<op, overflow_checks, program, state, new_state, list, i,
                   collected, yz, jk, a, a2, tmp, x, ret_vec, callers, result, prev>>

\* the call stack once decode_pair1, and a decode_pair2 that called it, returned
ReturnTo(cs) == IF cs # <<>> /\ Head(cs) = "decode_pair2" THEN Tail(cs) ELSE cs

Pair1Return ==
    /\ pc = "pair1_line75"
    /\ IF tmp < 1
       THEN /\ pc' = "panicked"
            /\ result' = Panic(MsgSub, 75)
            /\ UNCHANGED <<yz, jk, callers>>
       ELSE LET ret == <<x, half_pred(tmp)>>
                rest == ReturnTo(callers)
            IN  IF rest = <<>>
                THEN /\ pc' = "returned"
                     /\ result' = Ok(ret)
                     /\ callers' = rest
                     /\ UNCHANGED <<yz, jk>>
                ELSE IF Head(rest) = "line91"
                THEN /\ pc' = "dl_line92"
                     /\ yz' = ret
                     /\ callers' = Tail(rest)
                     /\ UNCHANGED <<jk, result>>
                ELSE /\ pc' = "dl_line102"
                     /\ jk' = ret
                     /\ callers' = Tail(rest)
                     /\ UNCHANGED <<yz, result>>
    /\ UNCHANGED <<op, overflow_checks, program, state, new_state, list, i,
                   collected, a, a2, tmp, x, ret_vec, prev>>

---------------------------------------------------------------------------
(* decode_godel_to_list *)

GodelEnter ==
    /\ pc = "gl_entry"
    /\ ret_vec' = <<>>
    /\ tmp' = a
    /\ pc' = "gl_while"
    /\ UNCHANGED <<op, overflow_checks, program, state, new_state, list, i,
                   collected, yz, jk, a, a2, x, callers, result, prev>>

GodelReturn ==
    /\ pc = "gl_while"
    /\ tmp = 0
    /\ result' = Ok(ret_vec)
    /\ pc' = "returned"
    /\ UNCHANGED <<op, overflow_checks, program, state, new_state, list, i,
                   collected, yz, jk, a, a2, tmp, x, ret_vec, callers, prev>>

GodelBody ==
    /\ pc = "gl_while"
    /\ tmp # 0
    /\ x' = 0
    /\ pc' = "gl_inner"
    /\ UNCHANGED <<op, overflow_checks, program, state, new_state, list, i,
                   collected, yz, jk, a, a2, tmp, ret_vec, callers, result, prev>>

GodelStrip ==
    /\ pc = "gl_inner"
    /\ is_even(tmp)
    /\ x < MaxStrip
    /\ x' = x + 1
    /\ tmp' = tmp \div 2
    /\ UNCHANGED <<op, pc, overflow_checks, program, state, new_state, list, i,
                   collected, yz, jk, a, a2, ret_vec, callers, result, prev>>

GodelPush ==
    /\ pc = "gl_inner"
    /\ ~ is_even(tmp)
    /\ ret_vec' = Append(ret_vec, x)
    /\ pc' = "gl_line129"
    /\ UNCHANGED <<op, overflow_checks, program, state, new_state, list, i,
                   collected, yz, jk, a, a2, tmp, x, callers, result, prev>>

GodelNext ==
    /\ pc = "gl_line129"
    /\ IF tmp < 1
       THEN /\ pc' = "panicked"
            /\ result' = Panic(MsgSub, 129)
            /\ UNCHANGED tmp
       ELSE /\ tmp' = half_pred(tmp)
            /\ pc' = "gl_while"
            /\ UNCHANGED result
    /\ UNCHANGED <<op, overflow_checks, program, state, new_state, list, i,
                   collected, yz, jk, a, a2, x, ret_vec, callers, prev>>

---------------------------------------------------------------------------
(* encode_program_to_list followed by decode_list_to_program *)

\* the first instruction whose 2 * *r overflows, or 0
FirstOverflow(prog) ==
    LET bad == {k \in 1..Len(prog) : prog[k][1] # "Halt" /\ mul2_overflows(prog[k][2])}
    IN  IF bad = {} THEN 0 ELSE CHOOSE k \in bad : \A m \in bad : k <= m

EncodeProgram ==
    /\ pc = "encode_entry"
    /\ LET k == FirstOverflow(program)
       IN  IF overflow_checks /\ k # 0
           THEN /\ pc' = "panicked"
                /\ result' = Panic(MsgMul, IF program[k][1] = "Add" THEN 56 ELSE 58)
                /\ UNCHANGED <<list, i, collected>>
           ELSE /\ list' = encode_program_to_list(program)
                /\ i' = 1
                /\ collected' = <<>>
                /\ pc' = "dl_iter"
                /\ UNCHANGED result
    /\ UNCHANGED <<op, overflow_checks, program, state, new_state, yz, jk, a,
                   a2, tmp, x, ret_vec, callers, prev>>

---------------------------------------------------------------------------
(* decode_list_to_program *)

DLHalt ==
    /\ pc = "dl_iter"
    /\ i <= Len(list)
    /\ is_halt_code(list[i])
    /\ collected' = Append(collected, Halt)
    /\ i' = i + 1
    /\ UNCHANGED <<op, pc, overflow_checks, program, state, new_state, list, yz,
                   jk, a, a2, tmp, x, ret_vec, callers, result, prev>>

DLCallPair1 ==
    /\ pc = "dl_iter"
    /\ i <= Len(list)
    /\ ~ is_halt_code(list[i])
    /\ a' = list[i]
    /\ callers' = <<"line91">> \o callers
    /\ pc' = "pair1_entry"
    /\ UNCHANGED <<op, overflow_checks, program, state, new_state, list, i,
                   collected, yz, jk, a2, tmp, x, ret_vec, result, prev>>

DLAdd ==
    /\ pc = "dl_line92"
    /\ is_even(yz[1])
    /\ LET r == to_u64(yz[1] \div 2)
           l == to_usize(yz[2])
       IN  IF r = None
           THEN /\ pc' = "panicked"
                /\ result' = Panic(MsgU64, 96)
                /\ UNCHANGED <<collected, i>>
           ELSE IF l = None
           THEN /\ pc' = "panicked"
                /\ result' = Panic(MsgUsize, 98)
                /\ UNCHANGED <<collected, i>>
           ELSE /\ collected' = Append(collected, Add(r[1], l[1]))
                /\ i' = i + 1
                /\ pc' = "dl_iter"
                /\ UNCHANGED result
    /\ UNCHANGED <<op, overflow_checks, program, state, new_state, list, yz, jk,
                   a, a2, tmp, x, ret_vec, callers, prev>>

DLCallPair2 ==
    /\ pc = "dl_line92"
    /\ ~ is_even(yz[1])
    /\ a2' = yz[2]
    /\ callers' = <<"line101">> \o callers
    /\ pc' = "pair2_entry"
    /\ UNCHANGED <<op, overflow_checks, program, state, new_state, list, i,
                   collected, yz, jk, a, tmp, x, ret_vec, result, prev>>

DLSub ==
    /\ pc = "dl_line102"
    /\ LET r == to_u64(half_pred(yz[1]))
           l1 == to_usize(jk[1])
           l2 == to_usize(jk[2])
       IN  IF r = None
           THEN /\ pc' = "panicked"
                /\ result' = Panic(MsgU64, 105)
                /\ UNCHANGED <<collected, i>>
           ELSE IF l1 = None
           THEN /\ pc' = "panicked"
                /\ result' = Panic(MsgUsize, 107)
                /\ UNCHANGED <<collected, i>>
           ELSE IF l2 = None
           THEN /\ pc' = "panicked"
                /\ result' = Panic(MsgUsize, 109)
                /\ UNCHANGED <<collected, i>>
           ELSE /\ collected' = Append(collected, Sub(r[1], l1[1], l2[1]))
                /\ i' = i + 1
                /\ pc' = "dl_iter"
                /\ UNCHANGED result
    /\ UNCHANGED <<op, overflow_checks, program, state, new_state, list, yz, jk,
                   a, a2, tmp, x, ret_vec, callers, prev>>

DLCollect ==
    /\ pc = "dl_iter"
    /\ i > Len(list)
    /\ result' = Ok(collected)
    /\ pc' = "returned"
    /\ UNCHANGED <<op, overflow_checks, program, state, new_state, list, i,
                   collected, yz, jk, a, a2, tmp, x, ret_vec, callers, prev>>

NextPair == Pair2Call \/ Pair1Enter \/ Pair1Strip \/ Pair1Exit \/ Pair1Return

NextGodel ==
    GodelEnter \/ GodelReturn \/ GodelBody \/ GodelStrip \/ GodelPush \/ GodelNext

NextDecodeList == DLHalt \/ DLCallPair1 \/ DLAdd \/ DLCallPair2 \/ DLSub \/ DLCollect

\* calls of decode_pair1, decode_pair2 and decode_godel_to_list
NextCodec == NextPair \/ NextGodel

\* calls of decode_list_to_program, decode_pair1 and decode_pair2
NextDecode == NextPair \/ NextDecodeList

\* encode_program_to_list and decode_list_to_program on its result
NextRoundTrip == EncodeProgram \/ NextPair \/ NextDecodeList

---------------------------------------------------------------------------
(* Inputs of the codec *)

\* the list and the program of the tests godel_list_to_program and
\* program_to_godel_list
TestList == <<46, 0, 10, 1>>
TestCodecProgram == <<Sub(0, 2, 1), Halt, Sub(0, 0, 1), Add(0, 0)>>

\* the list of the tests godel_num_to_godel_list and godel_list_to_godel_num,
\* its first element 46 lowered to 16 so that its Goedel number 2^16 * 20483
\* fits a 32-bit integer
ScaledTestGodelList == <<16, 0, 10, 1>>

\* the code of an instruction in exact arithmetic: Halt is 0, Add(r, l) is
\* pair1(2r, l) and Sub(r, l1, l2) is pair1(2r + 1, pair2(l1, l2))
ExactCode(p) ==
    CASE p[1] = "Add" -> 2^(2 * p[2]) * (2 * p[3] + 1)
      [] p[1] = "Sub" -> 2^(2 * p[2] + 1) * (2 * (2^p[3] * (2 * p[4] + 1) - 1) + 1)
      [] p[1] = "Halt" -> 0

InstructionsOver(R, L) ==
    {Add(r, l) : r \in R, l \in L}
    \cup {Sub(r, l[1], l[2]) : r \in R, l \in L \X L}
    \cup {Halt}

\* register ids and labels of the Goedel list elements: the largest of the
\* type and the first that does not fit the type
ElemRegisters == {RegisterMax, RegisterMax + 1}
ElemLabels == {LabelMax, LabelMax + 1}
GodelElems ==
    {ExactCode(p) : p \in InstructionsOver(ElemRegisters, ElemLabels)} \cup 0..MaxElem
GodelLists == SeqUpTo(GodelElems, MaxListLen) \cup {TestList}

\* register ids and labels of the programs given to encode_program_to_list
CodecRegisters == {0, RegisterMax \div 2, RegisterMax \div 2 + 1, RegisterMax}
CodecLabels == {0, LabelMax}
CodecPrograms ==
    SeqUpTo(InstructionsOver(CodecRegisters, CodecLabels), MaxProgLen)
    \cup {TestCodecProgram}

PairRange == 0..MaxPair
EncLists == SeqUpTo(0..MaxElem, MaxListLen + 1) \cup {ScaledTestGodelList}

Pair1Nums == 0..MaxNum \cup {encode_pair1(p[1], p[2]) : p \in PairRange \X PairRange}
Pair2Nums == 0..MaxNum \cup {encode_pair2(p[1], p[2]) : p \in PairRange \X PairRange}
GodelNums == 0..MaxNum \cup {encode_list_to_godel(l) : l \in EncLists}

\* a call of decode_pair1 with a number of S
InitPair1(S) ==
    /\ op = "decode_pair1" /\ pc = "pair1_entry"
    /\ a \in S /\ a2 = 0
    /\ program = <<>> /\ list = <<>> /\ i = 0

\* a call of decode_pair2 with a number of S
InitPair2(S) ==
    /\ op = "decode_pair2" /\ pc = "pair2_entry"
    /\ a2 \in S /\ a = 0
    /\ program = <<>> /\ list = <<>> /\ i = 0

\* a call of decode_godel_to_list
InitGodel ==
    /\ op = "decode_godel_to_list" /\ pc = "gl_entry"
    /\ a \in GodelNums /\ a2 = 0
    /\ program = <<>> /\ list = <<>> /\ i = 0

\* a call of decode_list_to_program, its iterator on the first element
InitDecodeList ==
    /\ op = "decode_list_to_program" /\ pc = "dl_iter"
    /\ list \in GodelLists /\ i = 1
    /\ program = <<>> /\ a = 0 /\ a2 = 0

\* the decoders have no fixed-width arithmetic: one build profile is followed
InitCodec ==
    /\ overflow_checks = FALSE
    /\ state = NoValue
    /\ InitLocals
    /\ InitPair1(Pair1Nums) \/ InitPair2(Pair2Nums) \/ InitGodel

SpecCodec == InitCodec /\ [][NextCodec]_vars

\* the code is sequential: a call that can take a step takes it
FairCodec == SpecCodec /\ WF_vars(NextCodec)

InitDecode ==
    /\ overflow_checks = FALSE
    /\ state = NoValue
    /\ InitLocals
    /\ InitDecodeList \/ InitPair1(0..MaxNum) \/ InitPair2(0..MaxNum)

SpecDecode == InitDecode /\ [][NextDecode]_vars

\* the code is sequential: a call that can take a step takes it
FairDecode == SpecDecode /\ WF_vars(NextDecode)

\* the build either traps the overflow of 2 * *r or wraps it
InitRoundTrip ==
    /\ op = "round_trip" /\ pc = "encode_entry"
    /\ overflow_checks \in BOOLEAN
    /\ program \in CodecPrograms
    /\ state = NoValue
    /\ list = <<>> /\ i = 0 /\ a = 0 /\ a2 = 0
    /\ InitLocals

SpecRoundTrip == InitRoundTrip /\ [][NextRoundTrip]_vars

---------------------------------------------------------------------------
(* Properties of eval_program *)

\* the value of register r in map m, 0 when r is absent
RefGet(m, r) == IF r \in DOMAIN m THEN m[r] ELSE 0

\* map m with register r set to v, every other register as it was
RefSet(m, r, v) == [k \in DOMAIN m \cup {r} |-> IF k = r THEN v ELSE m[k]]

\* a configuration from which no step is taken
Stopped(prog, s) == s[1] >= Len(prog) \/ prog[s[1] + 1] = Halt

\* the reference step rule
RefStep(prog, s) ==
    LET ins == prog[s[1] + 1]
        v == RefGet(s[2], ins[2])
    IN  IF ins[1] = "Add"
        THEN <<ins[3], RefSet(s[2], ins[2], v + 1)>>
        ELSE IF v = 0
             THEN <<ins[4], RefSet(s[2], ins[2], 0)>>
             ELSE <<ins[3], RefSet(s[2], ins[2], v - 1)>>

\* the reference step rule iterated until a stopped configuration, for at
\* most n steps
RECURSIVE RefRun(_, _, _)
RefRun(prog, s, n) ==
    IF n = 0 \/ Stopped(prog, s) THEN s ELSE RefRun(prog, RefStep(prog, s), n - 1)

\* more steps than any run of the model that returns
RefFuel == 64

TestFinalState == <<4, (0 :> 2) @@ (1 :> 0)>>

\* C1: whenever eval_program returns, it returns the state reached by
\* iterating the reference step rule from the initial state (Add sets r to
\* its value, 0 if absent, plus 1; Sub on zero goes to l2 and leaves r in the
\* map with 0, otherwise subtracts 1 and goes to l1; no other register is
\* changed or added), and the test program run from (0, {0:0, 1:7}) returns
\* (4, {0:2, 1:0}).
C1_EvalMatchesReference ==
    (op = "eval_program" /\ pc = "returned") =>
        /\ result = Ok(RefRun(program, state, RefFuel))
        /\ Stopped(program, RefRun(program, state, RefFuel))
        /\ (program = TestProgram /\ state = TestState) => result = Ok(TestFinalState)

C1_Witness ==
    /\ op = "eval_program" /\ pc = "returned"
    /\ program = TestProgram /\ state = TestState
    /\ result = Ok(TestFinalState)

\* C5: when the initial label is at or beyond the program length (the empty
\* program included), eval_program executes no instruction and returns the
\* input state: same label, same keys, same values.
C5_PastEndReturnsInput ==
    (op = "eval_program" /\ state[1] >= Len(program)) =>
        /\ pc = "eval_while" => new_state = state
        /\ pc = "returned" =>
              /\ result = Ok(state)
              /\ result[2][1] = state[1]
              /\ DOMAIN result[2][2] = DOMAIN state[2]
              /\ \A r \in DOMAIN state[2] : result[2][2][r] = state[2][r]

C5_Witness ==
    /\ op = "eval_program" /\ pc = "returned"
    /\ program # <<>> /\ state[1] > Len(program)
    /\ DOMAIN state[2] = {0, 1}
    /\ result = Ok(state)

\* C9: whenever eval_program returns, the returned label is at or beyond the
\* program length or is the index of a Halt instruction; it never points at
\* an Add or a Sub.
C9_ReturnsStopped ==
    (op = "eval_program" /\ pc = "returned") =>
        LET label == result[2][1]
        IN  \/ label >= Len(program)
            \/ /\ program[label + 1] = Halt
               /\ program[label + 1][1] \notin {"Add", "Sub"}

C9_Witness ==
    /\ op = "eval_program" /\ pc = "returned"
    /\ result[2] # state
    /\ result[2][1] < Len(program)
    /\ program[result[2][1] + 1] = Halt

---------------------------------------------------------------------------
(* Properties of the pairing and list codecs *)

\* C4: decode_pair1(encode_pair1(x, y)) = (x, y) and
\* decode_pair2(encode_pair2(x, y)) = (x, y) for all naturals x and y, with
\* encode_pair1(x, y) = 2^x * (2y + 1) and encode_pair2 one less.
C4_PairRoundTrip ==
    /\ (op = "decode_pair1" /\ pc \in Finished) =>
          \A xx \in PairRange, yy \in PairRange :
              /\ encode_pair1(xx, yy) = 2^xx * (2 * yy + 1)
              /\ a = encode_pair1(xx, yy) => result = Ok(<<xx, yy>>)
    /\ (op = "decode_pair2" /\ pc \in Finished) =>
          \A xx \in PairRange, yy \in PairRange :
              /\ encode_pair2(xx, yy) + 1 = encode_pair1(xx, yy)
              /\ a2 = encode_pair2(xx, yy) => result = Ok(<<xx, yy>>)

C4_Witness ==
    /\ op = "decode_pair2" /\ pc = "returned"
    /\ a2 = encode_pair2(2, 3)
    /\ result = Ok(<<2, 3>>)

\* C3: decode_godel_to_list(encode_list_to_godel(L)) = L for every finite
\* list L of naturals, the empty list and lists ending in 0 included, and
\* encode_list_to_godel(decode_godel_to_list(n)) = n for every natural n.
C3_ListRoundTrip ==
    (op = "decode_godel_to_list" /\ pc \in Finished) =>
        /\ pc = "returned"
        /\ encode_list_to_godel(result[2]) = a
        /\ \A l \in EncLists : a = encode_list_to_godel(l) => result = Ok(l)

C3_Witness ==
    /\ op = "decode_godel_to_list" /\ pc = "returned"
    /\ a = encode_list_to_godel(ScaledTestGodelList)
    /\ a = 2^16 * 20483
    /\ result = Ok(ScaledTestGodelList)

\* a round of the stripping loop, and the end of a round of the outer loop,
\* of decode_godel_to_list lower tmp
GodelDecreases ==
    op = "decode_godel_to_list" =>
        /\ (pc = "gl_inner" /\ pc' = "gl_inner") => tmp' < tmp
        /\ pc = "gl_line129" => tmp' < tmp

\* C8: decode_godel_to_list terminates for every natural: in each round of
\* the outer loop the value kept for the next round is strictly smaller than
\* the current one, each round of the factor-of-2 stripping loop halves a
\* positive even value, the subtraction of 1 is applied to a value of at
\* least 1, and the call returns.
C8_GodelDecodeTerminates ==
    /\ [](op = "decode_godel_to_list" =>
             /\ pc = "gl_inner" => tmp > 0
             /\ pc = "gl_line129" => tmp >= 1
             /\ pc # "panicked"
             /\ x < MaxStrip)
    /\ [][GodelDecreases]_vars
    /\ [](op = "decode_godel_to_list" => <>(pc = "returned"))

C8_Witness ==
    /\ op = "decode_godel_to_list" /\ pc = "gl_while"
    /\ Len(ret_vec) >= 2 /\ tmp > 0 /\ tmp < a

---------------------------------------------------------------------------
(* Properties of the program codec *)

\* the codes of the instructions that have a register id or a label that
\* does not fit its type
OutOfRangeCodes ==
    {ExactCode(p) : p \in {q \in InstructionsOver(0..RegisterMax + 1, 0..LabelMax + 1) :
                             /\ q # Halt
                             /\ \/ q[2] > RegisterMax
                                \/ \E k \in 3..Len(q) : q[k] > LabelMax}}

PanicReports ==
    {Panic(MsgU64, 96), Panic(MsgUsize, 98), Panic(MsgU64, 105),
     Panic(MsgUsize, 107), Panic(MsgUsize, 109)}

InRange(p) ==
    p = Halt \/ (p[2] <= RegisterMax /\ \A k \in 3..Len(p) : p[k] <= LabelMax)

\* C2: decode_list_to_program(encode_program_to_list(P)) = P for every
\* program P whose register ids are any value of the Register type and whose
\* labels are any value of the Label type.
C2_ProgramRoundTrip ==
    (op = "round_trip" /\ pc \in Finished) => result = Ok(program)

\* C6: if any element of the Goedel list decodes to a register id or a label
\* that does not fit its type, decode_list_to_program ends in an explicit
\* failure; it returns no program with that field wrapped or truncated, and
\* no partial program.
C6_OverflowFails ==
    (op = "decode_list_to_program" /\ pc \in Finished) =>
        /\ (\E k \in 1..Len(list) : list[k] \in OutOfRangeCodes) =>
              pc = "panicked" /\ result \in PanicReports
        /\ pc = "returned" =>
              /\ result[1] = "Ok"
              /\ Len(result[2]) = Len(list)
              /\ \A k \in 1..Len(list) :
                    InRange(result[2][k]) /\ ExactCode(result[2][k]) = list[k]

C6_Witness ==
    /\ op = "decode_list_to_program" /\ pc = "panicked"
    /\ i = 2 /\ collected # <<>>
    /\ list[2] = ExactCode(Sub(RegisterMax, LabelMax, LabelMax + 1))
    /\ result = Panic(MsgUsize, 109)

\* a round of the stripping loop of decode_pair1, called from decode_pair2 or
\* decode_list_to_program, lowers tmp
PairStripDecreases ==
    op \in {"decode_pair2", "decode_list_to_program"} =>
        ((pc = "pair1_while" /\ pc' = "pair1_while") => tmp' < tmp)

\* C10: decode_pair1 called with 0 never leaves its stripping loop, but
\* decode_list_to_program calls decode_pair1 only on non-zero elements and
\* decode_pair2 calls it on a + 1: every decode_pair1 and decode_pair2 call
\* made by decode_list_to_program terminates, and its subtraction of 1 is
\* applied to an odd value of at least 1.
C10_PairCallsTerminate ==
    /\ []((op = "decode_pair1" /\ a = 0) =>
             /\ pc \in {"pair1_entry", "pair1_while"}
             /\ pc = "pair1_while" => tmp = 0 /\ is_even(tmp))
    /\ [](op \in {"decode_pair2", "decode_list_to_program"} =>
             /\ pc \in {"pair1_entry", "pair1_while", "pair1_line75"} => a # 0
             /\ pc = "pair1_while" => tmp > 0 /\ x < MaxStrip
             /\ pc = "pair1_line75" => tmp >= 1 /\ tmp % 2 = 1
             /\ result \notin {Panic(MsgSub, 75)})
    /\ [][PairStripDecreases]_vars
    /\ [](op \in {"decode_pair2", "decode_list_to_program"} =>
             (pc \in {"pair1_entry", "pair2_entry"} =>
                 <>(pc \in {"dl_line92", "dl_line102", "returned"})))

C10_Witness ==
    /\ op = "decode_list_to_program" /\ pc = "pair1_line75"
    /\ callers = <<"decode_pair2", "line101">>
    /\ a2 = 0 /\ a = 1 /\ tmp = 1

---------------------------------------------------------------------------
(* A caller that calls decode_list_to_program again after a failure *)

\* The caller keeps what the failed call reported, with the position the
\* iterator had reached (prev), and calls decode_list_to_program on another
\* list.
Retry ==
    /\ op = "decode_list_to_program" /\ pc = "panicked"
    /\ prev = <<>>
    /\ prev' = <<result, i>>
    /\ list' \in GodelLists
    /\ i' = 1
    /\ collected' = <<>>
    /\ yz' = NoValue /\ jk' = NoValue
    /\ a' = 0 /\ a2' = 0 /\ tmp' = 0 /\ x' = 0
    /\ result' = NoValue
    /\ pc' = "dl_iter"
    /\ UNCHANGED <<op, overflow_checks, program, state, new_state, ret_vec, callers>>

NextRetry == NextPair \/ NextDecodeList \/ Retry

InitRetry ==
    /\ overflow_checks = FALSE
    /\ state = NoValue
    /\ InitLocals
    /\ InitDecodeList

SpecRetry == InitRetry /\ [][NextRetry]_vars

===========================================================================
